---- MODULE Spec2Model ----
(***************************************************************************)
(* Model of updatabase.py: the ScholarshipManager record store (SQLite     *)
(* table `students` behind one connection), the award calculation, and the *)
(* two ScholarshipApp handlers that drive them (save_student,              *)
(* update_report).                                                         *)
(*                                                                         *)
(* Representation.                                                         *)
(*  - A Python str is a sequence of one-character strings, so that strip,  *)
(*    upper and capitalize are computed character by character.            *)
(*  - A value of the well_dressed / well_behaved columns is an integer;    *)
(*    Python's truth test on it is "non-zero".                             *)
(*  - total_award is an integer number of naira.  deduction and            *)
(*    net_payment are Python floats; they are represented exactly, in      *)
(*    hundredths of a naira.  Every total the rule table can produce is a  *)
(*    multiple of 1000, and for each of them the IEEE-754 product          *)
(*    total * 0.05 is exactly total / 20, so the fixed-point value is the  *)
(*    float value, and sums of them are exact.                             *)
(*  - The store is the committed table `disk` plus the rows `txn` inserted *)
(*    by the connection's open transaction and not yet committed.  The     *)
(*    connection reads disk \o txn; another process reads disk only.       *)
(***************************************************************************)
EXTENDS Integers, Sequences, FiniteSets, TLC

\* ------------------------------------------------------------------ bounds
\* The model stops inserting when the table holds MaxRows rows.
MaxRows == 2

\* --------------------------------------------------------------- constants
\* TAX_RATE = 0.05, as a percentage.
TAX_RATE == 5
\* AWARD_ATTRIBUTES
well_dressed_award == 10000
general_gift == 20000
well_behaved_award == 5000
osun_state == 15000
female_monthly == 1000

\* ----------------------------------------------------------------- strings
LowerCase == <<"a","b","c","d","e","f","g","h","i","j","k","l","m",
               "n","o","p","q","r","s","t","u","v","w","x","y","z">>
UpperCase == <<"A","B","C","D","E","F","G","H","I","J","K","L","M",
               "N","O","P","Q","R","S","T","U","V","W","X","Y","Z">>

\* str.isspace on one character (the whitespace str.strip removes).
isspace(c) == c \in {" ", "\t", "\n", "\r"}

to_upper(c) ==
    IF \E i \in 1..26 : LowerCase[i] = c
    THEN UpperCase[CHOOSE i \in 1..26 : LowerCase[i] = c]
    ELSE c

to_lower(c) ==
    IF \E i \in 1..26 : UpperCase[i] = c
    THEN LowerCase[CHOOSE i \in 1..26 : UpperCase[i] = c]
    ELSE c

RECURSIVE lstrip(_)
lstrip(s) ==
    IF s # <<>> /\ isspace(Head(s)) THEN lstrip(Tail(s)) ELSE s

RECURSIVE rstrip(_)
rstrip(s) ==
    IF s # <<>> /\ isspace(s[Len(s)]) THEN rstrip(SubSeq(s, 1, Len(s) - 1)) ELSE s

\* str.strip(): leading and trailing whitespace removed.
strip(s) == rstrip(lstrip(s))

\* str.upper()
upper(s) == [i \in 1..Len(s) |-> to_upper(s[i])]

\* str.lower()
lower(s) == [i \in 1..Len(s) |-> to_lower(s[i])]

\* str.capitalize(): first character upper-cased, the rest lower-cased.
capitalize(s) ==
    IF s = <<>> THEN <<>> ELSE <<to_upper(Head(s))>> \o lower(Tail(s))

\* String literals the program compares against or offers in its widgets.
OSUN == <<"O","S","U","N">>
Female == <<"F","e","m","a","l","e">>
Male == <<"M","a","l","e">>
ABIA == <<"A","B","I","A">>
KANO == <<"K","A","N","O">>

\* ------------------------------------------------------- award calculation
\* Python truth value of an integer.
truthy(v) == v # 0

\* Faulty variant of calculate_award: the flags are compared with 1 instead
\* of being tested for truth.
calculate_award_flag_is_one(student) ==
    LET a1 == general_gift
        a2 == IF student.well_dressed = 1 THEN a1 + well_dressed_award ELSE a1
        a3 == IF student.well_behaved = 1 THEN a2 + well_behaved_award ELSE a2
        a4 == IF student.state = OSUN THEN a3 + osun_state ELSE a3
        total_award == IF student.gender = Female THEN a4 + female_monthly ELSE a4
        deduction == total_award * TAX_RATE
    IN  [total_award |-> total_award,
         deduction   |-> deduction,
         net_payment |-> total_award * 100 - deduction]

\* calculate_award(student): the dictionary it returns.  deduction and
\* net_payment are in hundredths of a naira.
calculate_award(student) ==
    LET a1 == general_gift
        a2 == IF truthy(student.well_dressed) THEN a1 + well_dressed_award ELSE a1
        a3 == IF truthy(student.well_behaved) THEN a2 + well_behaved_award ELSE a2
        a4 == IF student.state = OSUN THEN a3 + osun_state ELSE a3
        total_award == IF student.gender = Female THEN a4 + female_monthly ELSE a4
        deduction == total_award * TAX_RATE
    IN  [total_award |-> total_award,
         deduction   |-> deduction,
         net_payment |-> total_award * 100 - deduction]

\* ------------------------------------------------------------------- state
VARIABLES
    disk,         \* committed rows of table students, in rowid order
    txn,          \* rows inserted by the connection's open transaction
    ret,          \* the most recent call: its name, the id or the list it returned,
                  \* and whether its except branch ran
    report_text,  \* content of the report Text widget
    created,      \* history: <<id, arguments>> of every insert_student that returned an id
    failed,       \* history: <<the row the latest call returning None left in txn>>
    reported,     \* history: the rows the SELECT returned when the report was last drawn
    calc_in,      \* the dictionary handed to calculate_award (SpecCalc)
    calc_out      \* <<the dictionary calculate_award returned>>, <<>> before the call (SpecCalc)

vars == <<disk, txn, ret, report_text, created, failed, reported, calc_in, calc_out>>

\* Python None as a returned row id; SQLite row ids start at 1.
None == 0

Range(s) == {s[i] : i \in 1..Len(s)}

\* ------------------------------------------------------------ record store
\* The rows a statement on the connection sees: the committed table with the
\* open transaction's inserts applied.
Visible(d, t) == d \o t

\* INTEGER PRIMARY KEY without AUTOINCREMENT: the new rowid is one more than
\* the largest rowid in the table, 1 for an empty table.
NextRowid(rows) ==
    IF rows = <<>> THEN 1
    ELSE 1 + (CHOOSE m \in {rows[i].id : i \in 1..Len(rows)} :
                  \A i \in 1..Len(rows) : rows[i].id <= m)

\* Faulty variant of InsertValues: the state is trimmed but not upper-cased.
InsertValues_state_not_upper(name, gender, state, dressed, behaved) ==
    [name |-> strip(name),
     gender |-> capitalize(strip(gender)),
     state |-> strip(state),
     well_dressed |-> dressed,
     well_behaved |-> behaved]

\* Faulty variant of InsertValues: the gender is trimmed but not capitalized.
InsertValues_gender_not_capitalized(name, gender, state, dressed, behaved) ==
    [name |-> strip(name),
     gender |-> strip(gender),
     state |-> upper(strip(state)),
     well_dressed |-> dressed,
     well_behaved |-> behaved]

\* The tuple insert_student binds to the INSERT statement.
InsertValues(name, gender, state, dressed, behaved) ==
    [name |-> strip(name),
     gender |-> capitalize(strip(gender)),
     state |-> upper(strip(state)),
     well_dressed |-> dressed,
     well_behaved |-> behaved]

NewRow(rows, v) ==
    [id |-> NextRowid(rows), name |-> v.name, gender |-> v.gender, state |-> v.state,
     well_dressed |-> v.well_dressed, well_behaved |-> v.well_behaved]

\* How a call on the connection can end.
\*   "ok"               execute and commit succeed
\*   "execute_error"    c.execute raises sqlite3.Error; the statement is undone
\*   "commit_error"     c.execute succeeds, conn.commit raises (SQLITE_BUSY: the
\*                      database is locked); the transaction stays open
\*   "commit_rollback"  c.execute succeeds, conn.commit raises an error on which
\*                      SQLite rolls the transaction back itself (disk full, I/O)
InsertOutcomes == {"ok", "execute_error", "commit_error", "commit_rollback"}
\* A read ends "ok", or c.execute / c.fetchall raises sqlite3.Error.
ReadOutcomes == {"ok", "error"}

\* insert_student: the store it leaves and the value it returns.
insert_student(d, t, name, gender, state, dressed, behaved, outcome) ==
    LET row == NewRow(Visible(d, t), InsertValues(name, gender, state, dressed, behaved))
    IN  CASE outcome = "ok" ->
                [disk |-> d \o t \o <<row>>, txn |-> <<>>, value |-> row.id]
          [] outcome = "execute_error" ->
                [disk |-> d, txn |-> t, value |-> None]
          [] outcome = "commit_error" ->
                [disk |-> d, txn |-> t \o <<row>>, value |-> None]
          [] outcome = "commit_rollback" ->
                [disk |-> d, txn |-> <<>>, value |-> None]

\* The dictionary get_all_scholarship_data builds for one row: the columns,
\* updated with the result of calculate_award.
StudentDict(row) ==
    LET results == calculate_award(row)
    IN  [id |-> row.id, name |-> row.name, gender |-> row.gender, state |-> row.state,
         well_dressed |-> row.well_dressed, well_behaved |-> row.well_behaved,
         total_award |-> results.total_award,
         deduction |-> results.deduction,
         net_payment |-> results.net_payment]

\* Faulty variant of get_all_scholarship_data: the except branch returns the
\* dictionaries built so far instead of [].
get_all_scholarship_data_partial(d, t, outcome) ==
    LET rows == Visible(d, t)
    IN  IF outcome = "ok"
        THEN [i \in 1..Len(rows) |-> StudentDict(rows[i])]
        ELSE SubSeq([i \in 1..Len(rows) |-> StudentDict(rows[i])], 1, Len(rows) - 1)

\* get_all_scholarship_data: students_data, or [] from the except branch.
get_all_scholarship_data(d, t, outcome) ==
    LET rows == Visible(d, t)
    IN  IF outcome = "ok"
        THEN [i \in 1..Len(rows) |-> StudentDict(rows[i])]
        ELSE <<>>

\* ------------------------------------------------------------------ report
RECURSIVE SumField(_, _)
\* The accumulation loop of update_report over one key of the dictionaries.
SumField(students_data, key) ==
    IF students_data = <<>> THEN 0
    ELSE Head(students_data)[key] + SumField(Tail(students_data), key)

\* "No student records found. Add a student to begin.": no table, no totals.
NoRecords ==
    [records |-> FALSE, lines |-> <<>>,
     total_award_sum |-> 0, total_deduction_sum |-> 0, total_net_sum |-> 0]

\* Faulty variant of update_report: the net total accumulates total_award
\* instead of net_payment.
update_report_net_from_award(students_data) ==
    IF students_data = <<>>
    THEN NoRecords
    ELSE [records |-> TRUE,
          lines |-> [i \in 1..Len(students_data) |->
                        <<students_data[i].id, students_data[i].name, students_data[i].state,
                          students_data[i].total_award, students_data[i].deduction,
                          students_data[i].net_payment>>],
          total_award_sum |-> SumField(students_data, "total_award"),
          total_deduction_sum |-> SumField(students_data, "deduction"),
          total_net_sum |-> SumField(students_data, "total_award")]

\* update_report: what it puts in the Text widget for the list it fetched.
\* The table rows and the grand totals are kept as numbers; their layout as
\* text is not modelled.
update_report(students_data) ==
    IF students_data = <<>>
    THEN NoRecords
    ELSE [records |-> TRUE,
          lines |-> [i \in 1..Len(students_data) |->
                        <<students_data[i].id, students_data[i].name, students_data[i].state,
                          students_data[i].total_award, students_data[i].deduction,
                          students_data[i].net_payment>>],
          total_award_sum |-> SumField(students_data, "total_award"),
          total_deduction_sum |-> SumField(students_data, "deduction"),
          total_net_sum |-> SumField(students_data, "net_payment")]

\* The rows the SELECT of get_all_scholarship_data delivered.
Fetched(d, t, outcome) == IF outcome = "ok" THEN Visible(d, t) ELSE <<>>

\* ------------------------------------------------------------------ inputs
\* Arguments a caller passes to insert_student directly.
DirectArgs ==
    { [name |-> <<"A","d","a">>, gender |-> <<"f","e","m","a","l","e">>,
       state |-> <<" ","o","s","u","n"," ">>, dressed |-> 1, behaved |-> 1],
      [name |-> <<"M","u","s","a">>, gender |-> Male,
       state |-> <<"k","a","n","o">>, dressed |-> 0, behaved |-> 0],
      [name |-> <<" ","Z","e","d","\t">>, gender |-> <<"o","t","h","e","r">>,
       state |-> <<"O","s","u","n","\n">>, dressed |-> 2, behaved |-> 0],
      [name |-> <<>>, gender |-> <<" ","F","E","M","A","L","E">>,
       state |-> <<"o","y","o">>, dressed |-> 0, behaved |-> 2] }

\* What the form's widgets can hold when Save is pressed: any text in the
\* name Entry, one of the two Radiobutton values, one of the OptionMenu's
\* NIGERIAN_STATES, and the Checkbuttons' onvalue 1 / offvalue 0.
FormInputs ==
    { [name |-> <<"B","o">>, gender |-> Female, state |-> OSUN, dressed |-> 1, behaved |-> 1],
      [name |-> <<"E","m","e","k","a"," ">>, gender |-> Male, state |-> ABIA,
       dressed |-> 0, behaved |-> 0],
      [name |-> <<" "," ">>, gender |-> Male, state |-> KANO, dressed |-> 1, behaved |-> 0],
      [name |-> <<>>, gender |-> Female, state |-> OSUN, dressed |-> 0, behaved |-> 1] }

\* ----------------------------------------------------------------- actions
NoCall == [op |-> "none", id |-> None, students_data |-> <<>>, error |-> FALSE]

StoreInit ==
    /\ disk = <<>>
    /\ txn = <<>>
    /\ ret = NoCall
    /\ report_text = update_report(<<>>)
    /\ created = <<>>
    /\ failed = <<>>
    /\ reported = <<>>

Init ==
    /\ StoreInit
    /\ calc_in = [well_dressed |-> 0, well_behaved |-> 0, state |-> ABIA, gender |-> Male]
    /\ calc_out = <<>>

\* History kept by a call of insert_student that ended with result r.
Logged(a, o, r) ==
    /\ created' = IF r.value # None
                  THEN Append(created, [id |-> r.value, args |-> a])
                  ELSE created
    /\ failed' = IF o = "commit_error"
                 THEN <<r.txn[Len(r.txn)]>>
                 ELSE failed

\* A call of ScholarshipManager.insert_student.
InsertStudent ==
    \E a \in DirectArgs, o \in InsertOutcomes :
        LET r == insert_student(disk, txn, a.name, a.gender, a.state, a.dressed, a.behaved, o)
        IN  /\ Len(Visible(r.disk, r.txn)) <= MaxRows
            /\ disk' = r.disk
            /\ txn' = r.txn
            /\ ret' = [op |-> "insert_student", id |-> r.value, students_data |-> <<>>,
                       error |-> o # "ok"]
            /\ Logged(a, o, r)
            /\ UNCHANGED <<report_text, reported, calc_in, calc_out>>

\* A call of ScholarshipManager.get_all_scholarship_data.
GetAllScholarshipData ==
    \E o \in ReadOutcomes :
        /\ ret' = [op |-> "get_all_scholarship_data", id |-> None,
                   students_data |-> get_all_scholarship_data(disk, txn, o),
                   error |-> o # "ok"]
        /\ UNCHANGED <<disk, txn, report_text, created, failed, reported, calc_in, calc_out>>

\* The program ends and ScholarshipManager is constructed again on the same
\* database file: close_db (the open transaction is lost with the
\* connection), then connect_db and create_table (the table exists).
Reopen ==
    /\ txn' = <<>>
    /\ ret' = [op |-> "reopen", id |-> None, students_data |-> <<>>, error |-> FALSE]
    /\ UNCHANGED <<disk, report_text, created, failed, reported, calc_in, calc_out>>

\* The Save button: ScholarshipApp.save_student.  f is what the widgets hold
\* when it is pressed; the clearing of the name Entry and of the Checkbuttons
\* after a success only changes what the next f can start from.
SaveStudent ==
    \E f \in FormInputs, o \in InsertOutcomes, ro \in ReadOutcomes :
        IF f.name = <<>> \/ f.gender = <<>> \/ f.state = <<>>
        THEN /\ ret' = [op |-> "save_student", id |-> None, students_data |-> <<>>,
                        error |-> FALSE]
             /\ UNCHANGED <<disk, txn, report_text, created, failed, reported,
                            calc_in, calc_out>>
        ELSE LET r == insert_student(disk, txn, f.name, f.gender, f.state,
                                     f.dressed, f.behaved, o)
             IN  /\ Len(Visible(r.disk, r.txn)) <= MaxRows
                 /\ disk' = r.disk
                 /\ txn' = r.txn
                 /\ ret' = [op |-> "save_student", id |-> r.value, students_data |-> <<>>,
                            error |-> o # "ok"]
                 /\ Logged(f, o, r)
                 /\ IF truthy(r.value)
                    THEN /\ report_text' =
                              update_report(get_all_scholarship_data(r.disk, r.txn, ro))
                         /\ reported' = Fetched(r.disk, r.txn, ro)
                    ELSE UNCHANGED <<report_text, reported>>
                 /\ UNCHANGED <<calc_in, calc_out>>

\* ScholarshipApp.update_report, called on its own.
UpdateReport ==
    \E ro \in ReadOutcomes :
        /\ report_text' = update_report(get_all_scholarship_data(disk, txn, ro))
        /\ reported' = Fetched(disk, txn, ro)
        /\ ret' = [op |-> "update_report", id |-> None, students_data |-> <<>>,
                   error |-> ro # "ok"]
        /\ UNCHANGED <<disk, txn, created, failed, calc_in, calc_out>>

\* The whole program ends and is started again: Reopen, then
\* ScholarshipApp.__init__, which draws the report.
Restart ==
    \E ro \in ReadOutcomes :
        /\ txn' = <<>>
        /\ report_text' = update_report(get_all_scholarship_data(disk, <<>>, ro))
        /\ reported' = Fetched(disk, <<>>, ro)
        /\ ret' = [op |-> "restart", id |-> None, students_data |-> <<>>,
                   error |-> ro # "ok"]
        /\ UNCHANGED <<disk, created, failed, calc_in, calc_out>>

\* The record store as any caller can drive it.
Next ==
    \/ InsertStudent
    \/ GetAllScholarshipData
    \/ Reopen

Spec == Init /\ [][Next]_vars

\* The program as its user drives it: the form's handlers.
NextUI ==
    \/ SaveStudent
    \/ UpdateReport
    \/ Restart

SpecUI == Init /\ [][NextUI]_vars

\* --------------------------------------------- calculate_award on its own
CalcFlags == { 0, 1, 2 }
CalcStates == { OSUN, KANO, <<"O","s","u","n">>, <<" ","O","S","U","N">> }
CalcGenders == { Female, Male, <<"f","e","m","a","l","e">>, <<"O","t","h","e","r">> }

CalcInit ==
    /\ StoreInit
    /\ calc_in \in [well_dressed : CalcFlags, well_behaved : CalcFlags,
                    state : CalcStates, gender : CalcGenders]
    /\ calc_out = <<>>

Calculate ==
    /\ calc_out = <<>>
    /\ calc_out' = <<calculate_award(calc_in)>>
    /\ UNCHANGED <<disk, txn, ret, report_text, created, failed, reported, calc_in>>

SpecCalc == CalcInit /\ [][Calculate]_vars

\* ============================================================== properties
\* The rule table of the award, written out: 20000, plus 10000 if well
\* dressed, 5000 if well behaved, 15000 for OSUN, 1000 for Female.
ExpectedTotal(dressed, behaved, osun, female) ==
    20000 + (IF dressed THEN 10000 ELSE 0) + (IF behaved THEN 5000 ELSE 0)
          + (IF osun THEN 15000 ELSE 0) + (IF female THEN 1000 ELSE 0)

\* The columns of the dictionaries get_all_scholarship_data returned.
Columns(students_data) ==
    [i \in 1..Len(students_data) |->
        [id |-> students_data[i].id, name |-> students_data[i].name,
         gender |-> students_data[i].gender, state |-> students_data[i].state,
         well_dressed |-> students_data[i].well_dressed,
         well_behaved |-> students_data[i].well_behaved]]

\* The row a create that returned an id is expected to have stored.
ExpectedRow(c) ==
    [id |-> c.id, name |-> strip(c.args.name),
     gender |-> capitalize(strip(c.args.gender)),
     state |-> upper(strip(c.args.state)),
     well_dressed |-> c.args.dressed, well_behaved |-> c.args.behaved]

ReadReturned == ret.op = "get_all_scholarship_data" /\ ~ret.error

\* C1: for every record, whatever the truth values of well_dressed and
\* well_behaved and whether or not state is "OSUN" and gender is "Female",
\* calculate_award returns total_award = 20000 + 10000 (well dressed)
\* + 5000 (well behaved) + 15000 (state exactly OSUN) + 1000 (gender exactly
\* Female), deduction = 5% of total_award, net_payment = total_award -
\* deduction.  (deduction and net_payment are in hundredths.)
C1_AwardRuleTable ==
    calc_out # <<>> =>
        LET r == calc_out[1]
        IN  /\ r.total_award = ExpectedTotal(calc_in.well_dressed # 0,
                                             calc_in.well_behaved # 0,
                                             calc_in.state = OSUN,
                                             calc_in.gender = Female)
            /\ r.deduction * 100 = (r.total_award * 100) * 5
            /\ r.net_payment = r.total_award * 100 - r.deduction

\* C1 witness: a record with a truthy flag other than 1, state OSUN and gender
\* Female has been calculated: 20000 + 10000 + 15000 + 1000.
C1_Witness ==
    /\ calc_out # <<>>
    /\ calc_in.well_dressed = 2 /\ calc_in.well_behaved = 0
    /\ calc_in.state = OSUN /\ calc_in.gender = Female
    /\ calc_out[1].total_award = 46000
    /\ calc_out[1].deduction = 230000
    /\ calc_out[1].net_payment = 4370000

\* C2: the ids returned by successful creates are strictly increasing in call
\* order, none is returned twice, and an id that a failed create left with
\* its record is never assigned to a different record (here: the id of the
\* latest such failed create).
C2_IdsIncreasingNeverReused ==
    /\ \A i, j \in 1..Len(created) : i < j => created[i].id < created[j].id
    /\ \A i \in 1..Len(created), f \in Range(failed) :
          f.id = created[i].id => f = ExpectedRow(created[i])

\* The part of C2 about returned ids alone: strictly increasing, so never
\* returned twice.
ReturnedIdsIncreasing ==
    \A i, j \in 1..Len(created) : i < j => created[i].id < created[j].id

\* C3: once create has returned an id, every later successful listAll holds
\* exactly one record with that id and the call's normalized fields, with all
\* records created earlier, and a listAll never returns a record whose create
\* did not complete successfully: a successful read returns exactly the
\* records of the creates that returned an id, in order.
C3_ReadsShowExactlyTheCreated ==
    ReadReturned =>
        Columns(ret.students_data) = [i \in 1..Len(created) |-> ExpectedRow(created[i])]

\* C4: a create that fails with a storage error returns no id and leaves the
\* store as it was before the call (so its record is in no later listAll and
\* no later create commits it).
C4_FailedCreateDiscarded ==
    [][(ret'.op = "insert_student" /\ ret'.error) =>
           (ret'.id = None /\ disk' = disk /\ txn' = txn)]_vars

\* C5: whatever truthy or falsy value is passed to create as well_dressed or
\* well_behaved, every record of the store holds exactly 0 or 1 in both.
C5_FlagsAreZeroOrOne ==
    \A row \in Range(Visible(disk, txn)) :
        row.well_dressed \in {0, 1} /\ row.well_behaved \in {0, 1}

\* C6: after a create whose state argument is "OSUN" once trimmed and
\* upper-cased, a listAll yields its record with state exactly "OSUN" and a
\* total_award that includes the 15000; likewise a gender argument that is
\* "Female" once trimmed and capitalized is stored as exactly "Female" and
\* receives the 1000.
C6_NormalizationRoundTrip ==
    ReadReturned =>
        \A i \in 1..Len(created) :
            LET c == created[i]
                hits == {k \in 1..Len(ret.students_data) : ret.students_data[k].id = c.id}
            IN  /\ Cardinality(hits) = 1
                /\ \A k \in hits :
                     LET r == ret.students_data[k]
                     IN  /\ upper(strip(c.args.state)) = OSUN =>
                               /\ r.state = OSUN
                               /\ r.total_award =
                                    ExpectedTotal(c.args.dressed # 0, c.args.behaved # 0,
                                                  TRUE, r.gender = Female)
                         /\ capitalize(strip(c.args.gender)) = Female =>
                               /\ r.gender = Female
                               /\ r.total_award =
                                    ExpectedTotal(c.args.dressed # 0, c.args.behaved # 0,
                                                  r.state = OSUN, TRUE)

\* C6 witness: create(state = " osun ", gender = "female") returned an id and
\* the listAll after it shows that id with state "OSUN", gender "Female" and
\* the full award 51000.
C6_Witness ==
    /\ ReadReturned
    /\ \E i \in 1..Len(created), k \in 1..Len(ret.students_data) :
          /\ created[i].args.state = <<" ","o","s","u","n"," ">>
          /\ created[i].args.gender = <<"f","e","m","a","l","e">>
          /\ ret.students_data[k].id = created[i].id
          /\ ret.students_data[k].state = OSUN
          /\ ret.students_data[k].gender = Female
          /\ ret.students_data[k].total_award = 51000

\* C7: every stored record has a non-empty name without leading or trailing
\* whitespace, however the Save button is used.
C7_StoredNamesNonEmpty ==
    \A row \in Range(Visible(disk, txn)) :
        row.name # <<>> /\ strip(row.name) = row.name

\* C8 as stated: the gender of every stored record is exactly "Male" or
\* "Female", whatever gender string was passed to create.
C8_GenderIsMaleOrFemale ==
    \A row \in Range(Visible(disk, txn)) : row.gender \in {Male, Female}

\* C8 as amended: the gender of every stored record is in capitalized form
\* without surrounding whitespace, and the record of a create is "Male" or
\* "Female" exactly when the gender passed spells male or female in some
\* letter case, surrounding whitespace aside; any other gender is stored
\* capitalized, not rejected.
C8_GenderIsCapitalizedInput ==
    /\ \A row \in Range(Visible(disk, txn)) :
          strip(row.gender) = row.gender /\ capitalize(row.gender) = row.gender
    /\ \A i \in 1..Len(created) :
          \E row \in Range(disk) :
             /\ row.id = created[i].id
             /\ (row.gender \in {Male, Female}) <=>
                   (lower(strip(created[i].args.gender))
                       \in {<<"m","a","l","e">>, <<"f","e","m","a","l","e">>})

\* C8 witness: create(gender = "other") returned an id and its record holds
\* "Other"; create(gender = " FEMALE") returned an id and its record holds
\* "Female".
C8_Witness ==
    /\ \E i \in 1..Len(created), row \in Range(disk) :
          /\ created[i].args.gender = <<"o","t","h","e","r">>
          /\ row.id = created[i].id
          /\ row.gender = <<"O","t","h","e","r">>
    /\ \E i \in 1..Len(created), row \in Range(disk) :
          /\ created[i].args.gender = <<" ","F","E","M","A","L","E">>
          /\ row.id = created[i].id
          /\ row.gender = Female

\* C9: listAll always returns to its caller: the empty sequence on an empty
\* store, and the empty sequence, not a partial list, when the read fails;
\* the call leaves the store as it was.
C9_ReadNeverFails ==
    [][ret'.op = "get_all_scholarship_data" =>
           /\ disk' = disk /\ txn' = txn
           /\ ret'.error => ret'.students_data = <<>>
           /\ Visible(disk', txn') = <<>> => ret'.students_data = <<>>
           /\ ~ret'.error => Len(ret'.students_data) = Len(Visible(disk', txn'))]_vars

\* C9 witness: a read of a store that holds rows has failed and returned [].
C9_Witness ==
    /\ ret.op = "get_all_scholarship_data"
    /\ ret.error
    /\ ret.students_data = <<>>
    /\ Visible(disk, txn) # <<>>

RECURSIVE GrandTotal(_, _)
\* calculate_award applied to each row and one field of the results summed.
GrandTotal(rows, key) ==
    IF rows = <<>> THEN 0
    ELSE calculate_award(Head(rows))[key] + GrandTotal(Tail(rows), key)

\* C10: the grand totals of the report equal the totals obtained by applying
\* calculate_award to each record the store held when the report was drawn
\* and summing, and the grand net total is the grand award total minus the
\* grand deduction total.  (A report drawn by a call whose read succeeded is
\* drawn from the store's current records.)
C10_ReportTotals ==
    /\ report_text.records =>
          /\ report_text.total_award_sum = GrandTotal(reported, "total_award")
          /\ report_text.total_deduction_sum = GrandTotal(reported, "deduction")
          /\ report_text.total_net_sum = GrandTotal(reported, "net_payment")
          /\ report_text.total_net_sum =
                report_text.total_award_sum * 100 - report_text.total_deduction_sum
    /\ report_text.records <=> reported # <<>>
    /\ (ret.op \in {"update_report", "restart"} /\ ~ret.error) =>
          reported = Visible(disk, txn)
    /\ (ret.op = "save_student" /\ ret.id # None /\ report_text.records) =>
          reported = Visible(disk, txn)

\* C10 witness: a report over two records, the form's 51000 and 20000 awards.
C10_Witness ==
    /\ report_text.records
    /\ Len(reported) = 2
    /\ report_text.total_award_sum = 71000
    /\ report_text.total_deduction_sum = 355000
    /\ report_text.total_net_sum = 6745000

====
